---------------------------- MODULE Spec2Model ----------------------------
(***************************************************************************)
(* Agentic wallets: the M-of-N co-signature workflow (MultiSigManager),    *)
(* the per-agent scheduler (AgentRunner) and the decision engines          *)
(* (DecisionEngine, LLMDecisionEngine).                                    *)
(*                                                                         *)
(* JavaScript runs one callback at a time: a handler runs without          *)
(* interruption up to its next `await`, so every action below is one       *)
(* synchronous stretch of a handler, and an async handler is one action    *)
(* per stretch.                                                            *)
(*                                                                         *)
(* Amounts of SOL are integers in units of 1e-8 SOL (SolUnit), so that     *)
(* toFixed(6) is a real rounding (to a multiple of 100 units) and          *)
(* balance * 0.1 is exact for the balances drawn.                          *)
(***************************************************************************)
EXTENDS Integers, Sequences, FiniteSets, Bags, TLC

VARIABLES
    \* ---- MultiSigManager ----
    proposals,    \* this._proposals: proposalId -> MultiSigProposal
    execCalls,    \* the execute() invocations, each with its position
    confirmed,    \* per proposal: broadcasts signAndSend has confirmed
    ret,          \* outcome of the last createTransferProposal / coSign call
    \* ---- AgentRunner ----
    running,      \* this._running
    timer,        \* this._timer is a live setInterval handle
    intervals,    \* setInterval schedules alive in the event loop
    engine,       \* this.engine: "null" until init(), then the engine's class
    \* ---- DecisionEngine / LLMDecisionEngine ----
    peers,        \* this.peers
    cycleCount,   \* this.cycleCount
    state,        \* this.state
    tradeCount,   \* this.tradeCount
    ticks,        \* the _runTick() invocations in flight, each with its position
    started,      \* _runTick() invocations so far
    lastTrade,    \* the last call of protocol.executeTrade
    outcome,      \* what the last step emitted, and how its tick() settled
    wallet,       \* this.wallet of the runner: "null", or a WalletManager
    totalVolume,  \* this.totalVolume
    validation,   \* the last direct call of _validateDecision
    \* ---- WalletManager / KeyVault ----
    files,        \* the wallet files on disk: agentId -> the key stored
    keys,         \* keypairs Keypair.generate() has made so far
    vault,        \* this._wallets: agentId -> WalletManager instance
    walletManagers, \* WalletManager instances constructed so far
    regCalls,     \* the register() invocations, each with its position
    wret,         \* outcome of the last createWallet / loadWallet / getOrCreate
    \* ---- DeFiProtocol.rebalancePool ----
    rebal         \* the rebalancePool invocation: its locals and position

msVars == <<proposals, execCalls, confirmed, ret>>

vaultVars == <<files, keys, vault, walletManagers, regCalls, wret>>

agentVars == <<running, timer, intervals, engine, peers, cycleCount, state,
               tradeCount, ticks, started, lastTrade, outcome, wallet,
               totalVolume, validation>>

\* what a step of the runner or engine leaves alone in the other components
otherVars == <<msVars, vaultVars, rebal>>

vars == <<proposals, execCalls, confirmed, ret, running, timer, intervals,
          engine, peers, cycleCount, state, tradeCount, ticks, started,
          lastTrade, outcome, wallet, totalVolume, validation, files, keys,
          vault, walletManagers, regCalls, wret, rebal>>

----------------------------------------------------------------------------
(* Bounds of the model *)

\* co-signers passed to createTransferProposal (N - 1)
MaxCoSigners == 2
\* execute() invocations in one behaviour
MaxExecuteCalls == 2
\* readings of Date.now() (the system clock is not monotonic)
MaxTime == 2
Times == 1 .. MaxTime

\* WalletManager instances, named by their agentId
Wallets == {"alice", "bob", "carol"}

\* ids nanoid hands out; "msig-none" is an id no proposal was stored under
ProposalIds == {"msig-1"}
ProposalArgs == ProposalIds \cup {"msig-none"}

Range(s) == {s[i] : i \in DOMAIN s}

\* The coSigners arrays drawn: up to MaxCoSigners wallets in the order of
\* WalletOrder, the proposer possibly among them (it is then listed twice
\* in authorizedSigners).
WalletOrder == <<"alice", "bob", "carol">>
IsOrdered(s) ==
    \A i, j \in DOMAIN s :
        i < j => \E a, b \in DOMAIN WalletOrder :
                    a < b /\ WalletOrder[a] = s[i] /\ WalletOrder[b] = s[j]
CoSignerLists ==
    {s \in UNION {[1 .. n -> Wallets] : n \in 0 .. MaxCoSigners} : IsOrdered(s)}

\* requiredSigners drawn: from 0 (below every threshold) to one more than
\* the longest authorizedSigners
RequiredArgs == 0 .. MaxCoSigners + 2

----------------------------------------------------------------------------
(* MultiSigProposal *)

\* new MultiSigProposal(...): description, transaction and createdAt are
\* written once and never read by the lifecycle; they are left out.
NewProposal(proposer, required, authorized) ==
    [ proposerAgentId    |-> proposer,
      requiredSigners    |-> required,
      authorizedSigners  |-> authorized,
      signatures         |-> {},
      status             |-> "PENDING",
      executedAt         |-> 0,
      executionSignature |-> 0 ]

\* get signatureCount
SignatureCount(prop) == Cardinality(prop.signatures)

IsApproved_Lenient(prop) == SignatureCount(prop) + 1 >= prop.requiredSigners

\* get isApproved
IsApproved(prop) == SignatureCount(prop) >= prop.requiredSigners

IsAuthorizedSigner_Any(prop, agentId) == TRUE

\* proposal.authorizedSigners.includes(signerWallet.agentId)
IsAuthorizedSigner(prop, agentId) == agentId \in Range(prop.authorizedSigners)

IsPending_OrApproved(prop) == prop.status \in {"PENDING", "APPROVED"}

\* coSign: proposal.status !== "PENDING" throws
IsPending(prop) == prop.status = "PENDING"

AlreadySigned_Never(prop, agentId) == FALSE

\* coSign: proposal.signatures.has(signerWallet.agentId)
AlreadySigned(prop, agentId) == agentId \in prop.signatures

Signed_Alone(prop, agentId) == [prop EXCEPT !.signatures = {agentId}]

\* proposal.signatures.set(agentId, Buffer.from(...)): a Map, keyed by agentId
Signed(prop, agentId) == [prop EXCEPT !.signatures = @ \cup {agentId}]

----------------------------------------------------------------------------
(* MultiSigManager *)

NoRet == [op |-> "none", outcome |-> "none", approved |-> FALSE]

IdleCall == [pc |-> "idle", pid |-> "msig-none", error |-> "none", sig |-> 0]

MSInit ==
    /\ proposals = <<>>
    /\ execCalls = [c \in 1 .. MaxExecuteCalls |-> IdleCall]
    /\ confirmed = [p \in ProposalIds |-> 0]
    /\ ret = NoRet

\* createTransferProposal: the only await (getLatestBlockhash) comes before
\* anything is read or written, so the handler is one step.  It throws when
\* the RPC call or signOnly throws, before the proposal is stored.
CreateTransferProposal(proposer, required, coSigners) ==
    \E pid \in ProposalIds \ DOMAIN proposals :
        LET authorizedIds == <<proposer>> \o coSigners
            proposal == Signed(NewProposal(proposer, required, authorizedIds),
                               proposer)
        IN  /\ proposals' = proposals @@ (pid :> proposal)
            /\ ret' = [op |-> "create", outcome |-> "ok", approved |-> FALSE]
            /\ UNCHANGED <<execCalls, confirmed, agentVars, vaultVars, rebal>>

CreateTransferProposalThrows(proposer, required, coSigners) ==
    /\ ProposalIds \ DOMAIN proposals # {}
    /\ \E err \in {"RpcError", "SignError"} :
          ret' = [op |-> "create", outcome |-> err, approved |-> FALSE]
    /\ UNCHANGED <<proposals, execCalls, confirmed, agentVars, vaultVars, rebal>>

CoSignError_NoStateCheck(pid, agentId) ==
    IF pid \notin DOMAIN proposals THEN "NotFound"
    ELSE IF ~IsAuthorizedSigner(proposals[pid], agentId) THEN "Unauthorized"
    ELSE "none"

\* The checks of coSign, in the order of the code; "none" when all pass.
CoSignError(pid, agentId) ==
    IF pid \notin DOMAIN proposals THEN "NotFound"
    ELSE IF ~IsPending(proposals[pid]) THEN "InvalidState"
    ELSE IF ~IsAuthorizedSigner(proposals[pid], agentId) THEN "Unauthorized"
    ELSE "none"

\* coSign has no await: the whole handler is one step.
CoSign(pid, agentId) ==
    LET err == CoSignError(pid, agentId) IN
    /\ UNCHANGED <<execCalls, confirmed, agentVars, vaultVars, rebal>>
    /\ IF err # "none"
       THEN /\ ret' = [op |-> "coSign", outcome |-> err, approved |-> FALSE]
            /\ UNCHANGED proposals
       ELSE IF AlreadySigned(proposals[pid], agentId)
       THEN \* already signed: warn and return the current approval
            /\ ret' = [op |-> "coSign", outcome |-> "ok",
                       approved |-> IsApproved(proposals[pid])]
            /\ UNCHANGED proposals
       ELSE \/ \* signerWallet.signOnly throws: nothing was recorded yet
               /\ ret' = [op |-> "coSign", outcome |-> "SignError", approved |-> FALSE]
               /\ UNCHANGED proposals
            \/ LET signed == Signed(proposals[pid], agentId)
                   after == IF IsApproved(signed)
                            THEN [signed EXCEPT !.status = "APPROVED"]
                            ELSE signed
               IN  /\ proposals' = [proposals EXCEPT ![pid] = after]
                   /\ ret' = [op |-> "coSign", outcome |-> "ok", approved |-> IsApproved(after)]

ExecuteError_NoExecutedCheck(pid) ==
    IF pid \notin DOMAIN proposals THEN "NotFound"
    ELSE IF ~IsApproved(proposals[pid]) THEN "NotApproved"
    ELSE "none"

\* The checks of execute, in the order of the code; "none" when all pass.
ExecuteError(pid) ==
    IF pid \notin DOMAIN proposals THEN "NotFound"
    ELSE IF ~IsApproved(proposals[pid]) THEN "NotApproved"
    ELSE IF proposals[pid].status = "EXECUTED" THEN "AlreadyExecuted"
    ELSE "none"

\* The next execute() invocation: calls are numbered in the order they start.
NextCall(c) ==
    /\ execCalls[c].pc = "idle"
    /\ \A d \in 1 .. c - 1 : execCalls[d].pc # "idle"

\* execute, up to `await executorWallet.signAndSend(...)`: the checks, then
\* the broadcast is handed to the wallet and the handler suspends.
ExecuteBegin(c, pid) ==
    /\ NextCall(c)
    /\ LET err == ExecuteError(pid) IN
       execCalls' = [execCalls EXCEPT ![c] =
           IF err # "none"
           THEN [pc |-> "threw", pid |-> pid, error |-> err, sig |-> 0]
           ELSE [pc |-> "signAndSend", pid |-> pid, error |-> "none", sig |-> 0]]
    /\ UNCHANGED <<proposals, confirmed, ret, agentVars, vaultVars, rebal>>

\* execute, after signAndSend resolved: the status and the result are written.
ExecuteResume(c) ==
    /\ execCalls[c].pc = "signAndSend"
    /\ LET pid == execCalls[c].pid
           sig == confirmed[pid] + 1
       IN  \E now \in Times :
             /\ confirmed' = [confirmed EXCEPT ![pid] = sig]
             /\ proposals' = [proposals EXCEPT ![pid] =
                    [@ EXCEPT !.status = "EXECUTED",
                              !.executedAt = now,
                              !.executionSignature = sig]]
             /\ execCalls' = [execCalls EXCEPT ![c] =
                    [pc |-> "returned", pid |-> pid, error |-> "none",
                     sig |-> sig]]
    /\ UNCHANGED <<ret, agentVars, vaultVars, rebal>>

AfterBroadcastFailure_Executed(prop) == [prop EXCEPT !.status = "EXECUTED"]

\* execute: the three writes to the proposal come after the await, so a
\* rejected signAndSend leaves the proposal as it is
AfterBroadcastFailure(prop) == prop

\* execute, after signAndSend rejected: the error goes to the caller.
ExecuteBroadcastFails(c) ==
    /\ execCalls[c].pc = "signAndSend"
    /\ execCalls' = [execCalls EXCEPT ![c] =
           [@ EXCEPT !.pc = "threw", !.error = "BroadcastError"]]
    /\ proposals' = [proposals EXCEPT ![execCalls[c].pid] =
                         AfterBroadcastFailure(@)]
    /\ UNCHANGED <<confirmed, ret, agentVars, vaultVars, rebal>>

MSNext ==
    \/ \E w \in Wallets, m \in RequiredArgs, cs \in CoSignerLists :
          CreateTransferProposal(w, m, cs)
    \/ \E w \in Wallets, m \in RequiredArgs, cs \in CoSignerLists :
          CreateTransferProposalThrows(w, m, cs)
    \/ \E pid \in ProposalArgs, w \in Wallets : CoSign(pid, w)
    \/ \E c \in 1 .. MaxExecuteCalls, pid \in ProposalArgs : ExecuteBegin(c, pid)
    \/ \E c \in 1 .. MaxExecuteCalls : ExecuteResume(c)
    \/ \E c \in 1 .. MaxExecuteCalls : ExecuteBroadcastFails(c)

----------------------------------------------------------------------------
(* Amounts: integers in units of 1e-8 SOL *)

\* AGENT_MAX_SOL_PER_TX = 0.01 SOL (the default of config.js)
AGENT_MAX_SOL_PER_TX == 1000000
\* 0.003 SOL: the floor of _decide, of the safety gate and of _validateDecision
BalanceFloor == 300000
\* 0.02 SOL: the rule engine trades above it
TradeThreshold == 2000000
\* 0.000001 SOL: the smallest trade, and the step of toFixed(6)
MicroSol == 100
\* cycleCount % 7 and cycleCount % 12
YieldCycle == 7
RebalCycle == 12

\* _runTick invocations in one behaviour
MaxTicks == 2
\* Math.random() is drawn from {0, 1/RandDen, ..., (RandDen-1)/RandDen} and
\* a value just below 1
RandDen == 2

\* the agent of the runner, and the peer arrays it may be constructed with
AgentId == "alice"
PeerLists == {<< >>, <<"bob">>, <<"alice", "bob">>}

\* balances getSOLBalance may resolve to: below the floor, the floor, just
\* above it, the trade threshold, just above it, and 0.872 SOL
Balances == {299990, 300000, 310650, 2000000, 2000010, 87200000}

AgentStates == {"IDLE", "TRADE", "YIELD", "REBAL"}

Min(a, b) == IF a <= b THEN a ELSE b

\* parseFloat(x.toFixed(6)): x rounded to the nearest micro-SOL, halves up
\* in magnitude
ToFixed6(x) ==
    IF x >= 0 THEN MicroSol * ((x + MicroSol \div 2) \div MicroSol)
    ELSE -(MicroSol * (((-x) + MicroSol \div 2) \div MicroSol))

\* Math.random() * m, for m >= 1: a real in [0, m), here to 1e-8 SOL
RandomTimes(m) == {(k * m) \div RandDen : k \in 0 .. RandDen - 1} \cup {m - 1}

----------------------------------------------------------------------------
(* DecisionEngine: the rule engine *)

Decide_NoFloor(balance, cycle, peerList) ==
    IF cycle % YieldCycle = 0 THEN "YIELD"
    ELSE IF cycle % RebalCycle = 0 /\ Len(peerList) > 0 THEN "REBAL"
    ELSE IF Len(peerList) > 0 /\ balance > TradeThreshold THEN "TRADE"
    ELSE "IDLE"

Decide_RebalFirst(balance, cycle, peerList) ==
    IF balance < BalanceFloor THEN "IDLE"
    ELSE IF cycle % RebalCycle = 0 /\ Len(peerList) > 0 THEN "REBAL"
    ELSE IF cycle % YieldCycle = 0 THEN "YIELD"
    ELSE IF Len(peerList) > 0 /\ balance > TradeThreshold THEN "TRADE"
    ELSE "IDLE"

\* _decide
Decide(balance, cycle, peerList) ==
    IF balance < BalanceFloor THEN "IDLE"
    ELSE IF cycle % YieldCycle = 0 THEN "YIELD"
    ELSE IF cycle % RebalCycle = 0 /\ Len(peerList) > 0 THEN "REBAL"
    ELSE IF Len(peerList) > 0 /\ balance > TradeThreshold THEN "TRADE"
    ELSE "IDLE"

RuleMaxTrade_NoCap(balance) == balance \div 10

\* _doTrade: Math.min(AGENT_MAX_SOL_PER_TX, balance * 0.1)
RuleMaxTrade(balance) == Min(AGENT_MAX_SOL_PER_TX, balance \div 10)

\* _doTrade: the calls of protocol.executeTrade it can make
RuleTradeCalls(balance) ==
    {[target |-> p, amount |-> ToFixed6(x)] :
        p \in Range(peers) \ {AgentId},
        x \in {y \in RandomTimes(RuleMaxTrade(balance)) :
                 RuleMaxTrade(balance) >= MicroSol /\ ToFixed6(y) > 0}}

\* _doTrade: it can return without trading
RuleTradeSkips(balance) ==
    \/ Len(peers) = 0
    \/ AgentId \in Range(peers)
    \/ RuleMaxTrade(balance) < MicroSol
    \/ \E y \in RandomTimes(RuleMaxTrade(balance)) : ToFixed6(y) <= 0

----------------------------------------------------------------------------
(* LLMDecisionEngine *)

\* What JSON.parse can give for the collaborator's answer.  A TRADE names a
\* target that is a peer, a stranger or null, and an amount that is null,
\* negative, zero, tiny, within the cap, the cap or above it; the other
\* actions (and "HODL", no action of the agent) are drawn without them,
\* since nothing reads the target or the amount of such an answer.
LLMAmounts == {-1000000, 0, 150, 500000, 1000000, 1000050, 50000000}
LLMTargets == {"null", "bob", "zed"}
LLMDecisions ==
    {[action |-> a, tradeTarget |-> "null", hasAmount |-> FALSE, tradeAmount |-> 0] :
        a \in (AgentStates \cup {"HODL"}) \ {"TRADE"}}
    \cup {[action |-> "TRADE", tradeTarget |-> p, hasAmount |-> FALSE, tradeAmount |-> 0] :
            p \in LLMTargets}
    \cup {[action |-> "TRADE", tradeTarget |-> p, hasAmount |-> TRUE, tradeAmount |-> x] :
            p \in LLMTargets, x \in LLMAmounts}

\* `decision.tradeAmount` is truthy
AmountGiven(d) == d.hasAmount /\ d.tradeAmount # 0

\* _fallbackDecisionObject(snapshot.balanceSOL)
FallbackDecisionObjects(balance6) ==
    IF balance6 < BalanceFloor
        THEN {[action |-> "IDLE", tradeTarget |-> "null", hasAmount |-> FALSE, tradeAmount |-> 0]}
    ELSE IF cycleCount % YieldCycle = 0
        THEN {[action |-> "YIELD", tradeTarget |-> "null", hasAmount |-> FALSE, tradeAmount |-> 0]}
    ELSE IF cycleCount % RebalCycle = 0 /\ Len(peers) > 0
        THEN {[action |-> "REBAL", tradeTarget |-> "null", hasAmount |-> FALSE, tradeAmount |-> 0]}
    ELSE IF Len(peers) > 0 /\ balance6 > TradeThreshold
        THEN {[action |-> "TRADE", tradeTarget |-> p, hasAmount |-> TRUE,
               tradeAmount |-> AGENT_MAX_SOL_PER_TX \div 2] : p \in Range(peers)}
    ELSE {[action |-> "IDLE", tradeTarget |-> "null", hasAmount |-> FALSE, tradeAmount |-> 0]}

ValidatedState_Unchecked(d, balance) == d.action

ValidatedState_KnownTarget(d, balance) ==
    IF d.action \notin AgentStates THEN "IDLE"
    ELSE IF d.action = "TRADE"
              /\ (d.tradeTarget \notin Range(peers)
                  \/ balance - (IF AmountGiven(d) THEN d.tradeAmount ELSE 0)
                        < BalanceFloor)
         THEN "IDLE"
    ELSE d.action

\* _validateDecision: the state it returns
ValidatedState(d, balance) ==
    IF d.action \notin AgentStates THEN "IDLE"
    ELSE IF d.action = "TRADE"
              /\ balance - (IF AmountGiven(d) THEN d.tradeAmount ELSE 0) < BalanceFloor
         THEN "IDLE"
    ELSE d.action

\* _validateDecision: the decision object as it leaves it (tradeAmount capped)
ValidatedDecision(d, balance) ==
    IF /\ ValidatedState(d, balance) = "TRADE"
       /\ AmountGiven(d)
       /\ d.tradeAmount > AGENT_MAX_SOL_PER_TX
    THEN [d EXCEPT !.tradeAmount = AGENT_MAX_SOL_PER_TX]
    ELSE d

\* _doLLMTrade: the peers the trade can go to
LLMTradeTargets(d) ==
    IF d.tradeTarget # "null" /\ d.tradeTarget \in Range(peers)
    THEN {d.tradeTarget}
    ELSE Range(peers)

\* _doLLMTrade: Math.min(tradeAmount || random * MAX, MAX, balance * 0.1).toFixed(6)
LLMTradeAmounts(d, balance) ==
    {ToFixed6(Min(Min(x, AGENT_MAX_SOL_PER_TX), balance \div 10)) :
        x \in IF AmountGiven(d) THEN {d.tradeAmount}
              ELSE RandomTimes(AGENT_MAX_SOL_PER_TX)}

\* _doLLMTrade: the calls of protocol.executeTrade it can make
LLMTradeCalls(d, balance) ==
    {[target |-> p, amount |-> a] :
        p \in LLMTradeTargets(d),
        a \in {x \in LLMTradeAmounts(d, balance) : x > MicroSol}}

\* _doLLMTrade: it can return without trading
LLMTradeSkips(d, balance) ==
    \/ LLMTradeTargets(d) = {}
    \/ \E x \in LLMTradeAmounts(d, balance) : x <= MicroSol

----------------------------------------------------------------------------
(* WalletManager and KeyVault *)

\* agentIds that are registered, and register() invocations in one behaviour
VaultAgents == {"alice", "bob"}
MaxRegisterCalls == 2
\* calls of Keypair.generate() in one behaviour
MaxKeys == 3

NoWret == [op |-> "none", agentId |-> "none", publicKey |-> 0, error |-> "none"]
IdleRegister == [pc |-> "idle", agentId |-> "none", wm |-> 0]

\* an empty wallet directory, or one that holds alice's wallet from an
\* earlier run
VaultInit ==
    /\ files \in {[a \in VaultAgents |-> 0],
                  [a \in VaultAgents |-> IF a = "alice" THEN 1 ELSE 0]}
    /\ keys = files["alice"]
    /\ vault = [a \in VaultAgents |-> 0]
    /\ walletManagers = 0
    /\ regCalls = [c \in 1 .. MaxRegisterCalls |-> IdleRegister]
    /\ wret = NoWret

\* a process that starts on an empty wallet directory
VaultAtRest == VaultInit /\ files = [a \in VaultAgents |-> 0]

WalletFileExists_Never(agentId) == FALSE

\* existsSync(this._walletFile)
WalletFileExists(agentId) == files[agentId] # 0

\* loadWallet: the stored key becomes the keypair of the instance
WalletLoad(op, agentId) ==
    /\ wret' = IF WalletFileExists(agentId)
               THEN [op |-> op, agentId |-> agentId,
                     publicKey |-> files[agentId], error |-> "none"]
               ELSE [op |-> op, agentId |-> agentId, publicKey |-> 0,
                     error |-> "NoWallet"]
    /\ UNCHANGED <<files, keys>>

\* createWallet: no await between existsSync and writeFileSync; the
\* airdrop that may follow catches its own errors.  writeFileSync can throw.
WalletCreate(op, agentId) ==
    IF WalletFileExists(agentId)
    THEN WalletLoad(op, agentId)
    ELSE /\ keys < MaxKeys
         /\ keys' = keys + 1
         /\ \/ /\ files' = [files EXCEPT ![agentId] = keys + 1]
               /\ wret' = [op |-> op, agentId |-> agentId,
                           publicKey |-> keys + 1, error |-> "none"]
            \/ /\ wret' = [op |-> op, agentId |-> agentId, publicKey |-> 0,
                           error |-> "WriteError"]
               /\ UNCHANGED files

\* getOrCreate
WalletGetOrCreate(op, agentId) ==
    IF WalletFileExists(agentId)
    THEN WalletLoad(op, agentId)
    ELSE WalletCreate(op, agentId)

VaultFrame ==
    UNCHANGED <<msVars, agentVars, rebal>>

\* new WalletManager(agentId).createWallet()
CreateWallet(agentId) ==
    /\ WalletCreate("createWallet", agentId)
    /\ UNCHANGED <<vault, walletManagers, regCalls>>
    /\ VaultFrame

\* new WalletManager(agentId).loadWallet()
LoadWallet(agentId) ==
    /\ WalletLoad("loadWallet", agentId)
    /\ UNCHANGED <<vault, walletManagers, regCalls>>
    /\ VaultFrame

\* new WalletManager(agentId).getOrCreate()
GetOrCreate(agentId) ==
    /\ WalletGetOrCreate("getOrCreate", agentId)
    /\ UNCHANGED <<vault, walletManagers, regCalls>>
    /\ VaultFrame

\* The next register() invocation: calls are numbered as they start.
NextRegister(c) ==
    /\ regCalls[c].pc = "idle"
    /\ \A d \in 1 .. c - 1 : regCalls[d].pc # "idle"

\* register, up to `await wm.getOrCreate()`: a registered agentId returns
\* its instance; else a new WalletManager is built and getOrCreate runs
\* (all of it that touches the file) before the handler suspends.
RegisterBegin(c, agentId) ==
    /\ NextRegister(c)
    /\ IF vault[agentId] # 0
       THEN /\ regCalls' = [regCalls EXCEPT ![c] =
                   [pc |-> "returned", agentId |-> agentId,
                    wm |-> vault[agentId]]]
            /\ wret' = NoWret
            /\ UNCHANGED <<files, keys, walletManagers>>
       ELSE /\ walletManagers' = walletManagers + 1
            /\ WalletGetOrCreate("register", agentId)
            /\ regCalls' = [regCalls EXCEPT ![c] =
                   [pc |-> IF wret'.error = "none" THEN "getOrCreate"
                           ELSE "getOrCreateFailed",
                    agentId |-> agentId, wm |-> walletManagers + 1]]
    /\ UNCHANGED vault
    /\ VaultFrame

\* register, after getOrCreate resolved: this._wallets.set(agentId, wm)
RegisterResume(c) ==
    /\ regCalls[c].pc = "getOrCreate"
    /\ vault' = [vault EXCEPT ![regCalls[c].agentId] = regCalls[c].wm]
    /\ regCalls' = [regCalls EXCEPT ![c] = [@ EXCEPT !.pc = "returned"]]
    /\ wret' = NoWret
    /\ UNCHANGED <<files, keys, walletManagers>>
    /\ VaultFrame

\* register, after getOrCreate rejected: the error goes to the caller
RegisterRejects(c) ==
    /\ regCalls[c].pc = "getOrCreateFailed"
    /\ regCalls' = [regCalls EXCEPT ![c] = [@ EXCEPT !.pc = "threw"]]
    /\ wret' = NoWret
    /\ UNCHANGED <<files, keys, vault, walletManagers>>
    /\ VaultFrame

VaultNext ==
    \/ \E a \in VaultAgents : CreateWallet(a)
    \/ \E a \in VaultAgents : LoadWallet(a)
    \/ \E a \in VaultAgents : GetOrCreate(a)
    \/ \E c \in 1 .. MaxRegisterCalls, a \in VaultAgents : RegisterBegin(c, a)
    \/ \E c \in 1 .. MaxRegisterCalls : RegisterResume(c)
    \/ \E c \in 1 .. MaxRegisterCalls : RegisterRejects(c)

----------------------------------------------------------------------------
(* DeFiProtocol.rebalancePool *)

\* wallets in the pool
MaxPool == 3
\* 0.002 SOL: a wallet gives above target + band and receives below target - band
RebalBand == 200000
\* 0.001 SOL: what a donor keeps above the target, for fees
RebalReserve == 100000

\* balances getSOLBalance may resolve to for a wallet of the pool, and
\* targets: 0.01 SOL and 0.0105 SOL
PoolBalances == {0, 700000, 1150000, 1250000, 1400000, 3000000}
PoolTargets == {1000000, 1050000}

NoRebal ==
    [pc |-> "idle", bals |-> << >>, target |-> 0, donors |-> << >>,
     receivers |-> << >>, r |-> 0, d |-> 0, needed |-> 0, send |-> 0,
     amount |-> 0, attempts |-> 0, settled |-> "none"]

PoolInit == rebal = NoRebal

Indices(n) == [i \in 1 .. n |-> i]

\* balances.filter((b) => b.bal > targetSOL + 0.002), as positions in balances
Donors(bals, target) ==
    SelectSeq(Indices(Len(bals)), LAMBDA i : bals[i] > target + RebalBand)

\* balances.filter((b) => b.bal < targetSOL - 0.002)
Receivers(bals, target) ==
    SelectSeq(Indices(Len(bals)), LAMBDA i : bals[i] < target - RebalBand)

RebalAvailable_NoReserve(bal, target) == bal - target

\* donor.bal - targetSOL - 0.001
RebalAvailable(bal, target) == bal - target - RebalReserve

\* The two for loops from receiver r, donor d on, with `needed` as it is,
\* up to the next `await donor.wallet.sendSOL(...)` or the end.
RECURSIVE RebalScan(_, _, _, _)
RebalScan(st, r, d, needed) ==
    IF r > Len(st.receivers)
    THEN [st EXCEPT !.pc = "done", !.r = 0, !.d = 0, !.needed = 0,
                    !.send = 0, !.amount = 0]
    ELSE IF d > Len(st.donors) \/ needed <= 0
    THEN IF r + 1 > Len(st.receivers)
         THEN RebalScan(st, r + 1, 1, 0)
         ELSE RebalScan(st, r + 1, 1,
                        st.target - st.bals[st.receivers[r + 1]])
    ELSE LET available == RebalAvailable(st.bals[st.donors[d]], st.target) IN
         IF available <= 0
         THEN RebalScan(st, r, d + 1, needed)
         ELSE [st EXCEPT !.pc = "transfer", !.r = r, !.d = d,
                         !.needed = needed,
                         !.send = Min(needed, available),
                         !.amount = ToFixed6(Min(needed, available)),
                         !.attempts = @ + 1]

PoolFrame ==
    UNCHANGED <<msVars, agentVars, vaultVars>>

\* rebalancePool(wallets, targetSOL), once the balances of the pool are
\* read: donors and receivers are chosen and the loops run to the first
\* transfer
RebalancePool(bals, target) ==
    /\ rebal.pc = "idle"
    /\ LET st == [NoRebal EXCEPT !.bals = bals, !.target = target,
                                 !.donors = Donors(bals, target),
                                 !.receivers = Receivers(bals, target)]
       IN  rebal' = IF Len(st.receivers) = 0
                    THEN RebalScan(st, 1, 1, 0)
                    ELSE RebalScan(st, 1, 1, target - bals[st.receivers[1]])
    /\ PoolFrame

\* rebalancePool: a getSOLBalance of the pool rejects, and so does the call
PoolBalanceRejected ==
    /\ rebal.pc = "idle"
    /\ rebal' = [NoRebal EXCEPT !.pc = "threw"]
    /\ PoolFrame

\* sendSOL resolved: the tracked balances and `needed` are updated
PoolTransferResolved ==
    /\ rebal.pc = "transfer"
    /\ LET donor == rebal.donors[rebal.d]
           receiver == rebal.receivers[rebal.r]
           st == [rebal EXCEPT !.bals[donor] = @ - rebal.send,
                               !.bals[receiver] = @ + rebal.send,
                               !.settled = "resolved"]
       IN  rebal' = RebalScan(st, rebal.r, rebal.d + 1,
                              rebal.needed - rebal.send)
    /\ PoolFrame

AfterTransferFailed_Retry(d) == d

\* the catch of the inner loop only logs: the loop goes on with the next donor
AfterTransferFailed(d) == d + 1

\* sendSOL rejected
PoolTransferRejected ==
    /\ rebal.pc = "transfer"
    /\ rebal' = RebalScan([rebal EXCEPT !.settled = "rejected"], rebal.r,
                          AfterTransferFailed(rebal.d), rebal.needed)
    /\ PoolFrame

\* the awaited sendSOL settles
PoolTransferSettles ==
    \/ PoolTransferResolved
    \/ PoolTransferRejected

PoolNext ==
    \/ \E n \in 1 .. MaxPool, target \in PoolTargets :
          \E bals \in [1 .. n -> PoolBalances] : RebalancePool(bals, target)
    \/ PoolBalanceRejected
    \/ PoolTransferResolved
    \/ PoolTransferRejected

----------------------------------------------------------------------------
(* AgentRunner and one decision cycle *)

\* A tick in flight is the position of one _runTick invocation and the
\* balance its cycle read, while the cycle still uses it.  The ticks in
\* flight form a bag: settled ticks leave it.
\* amount is the `amount` of _doTrade / _doLLMTrade across its await.
Tick(pc, balance) ==
    [pc |-> pc, balance |-> balance, peers |-> << >>, amount |-> 0]

\* executeTrade(wallet, peer, amount) is awaited
TradeTick(amount) == [Tick("trade", 0) EXCEPT !.amount = amount]

\* the tick once its snapshot is built: availablePeerIds is in the snapshot
SnapshotTick(balance, peerList) ==
    [Tick("llm", balance) EXCEPT !.peers = peerList]

Suspend(old, new) == (ticks (-) SetToBag({old})) (+) SetToBag({new})
Settle(old) == ticks (-) SetToBag({old})

NoTrade == [made |-> FALSE, source |-> "none", target |-> "null",
            balance |-> 0, amount |-> 0]

\* cycleCount of a runner that was started earlier, ran this many cycles
\* that all came out IDLE, and was stopped: the next cycles are the 6th and
\* 7th, or the 11th and 12th
EarlierCycles == {5, 10}

\* What a step emits on the engine ("decision", "action", "error") and how
\* the tick() promise it belongs to settles, if it does in that step; early
\* names the call of the runner that returned at its first line; source is
\* the source field of a decision event, if it has one, and answer is the
\* action of the decision object the event reports
\* cycle is the cycle field of a decision event; action and amount are
\* those of an action event
Outcome(event, tick) ==
    [event |-> event, tick |-> tick, early |-> "none", source |-> "none",
     answer |-> "none", cycle |-> 0, action |-> "none", amount |-> 0]
NoOutcome == Outcome("none", "none")
DecisionOutcome(tick, source, answer) ==
    [Outcome("decision", tick) EXCEPT !.source = source, !.answer = answer]
\* `cycle: this.cycleCount` of the decision event
Numbered(out) == [out EXCEPT !.cycle = cycleCount]
\* emit("action", {action, amount, ...})
ActionOutcome(action, amount) ==
    [Outcome("action", "resolved") EXCEPT !.action = action, !.amount = amount]

\* firstPeers and seenPeers are this.peers at the first and at the last call
NoValidation ==
    [called |-> FALSE, raw |-> "none", balance |-> 0, result |-> "none",
     decision |-> "none", calls |-> 0, firstPeers |-> << >>,
     seenPeers |-> << >>]

\* new AgentRunner(agentId, peerWallets), or a stopped runner with no cycle
\* in flight and EarlierCycles idle cycles behind it (of the rule engine,
\* the one whose decision depends on the cycle number)
AgentInit ==
    /\ running = FALSE
    /\ timer = FALSE
    /\ intervals = 0
    /\ peers \in PeerLists
    /\ \/ engine = "null" /\ cycleCount = 0
       \/ engine = "rule" /\ cycleCount \in EarlierCycles
    /\ state = "IDLE"
    /\ tradeCount = 0
    /\ ticks = EmptyBag
    /\ started = 0
    /\ lastTrade = NoTrade
    /\ outcome = NoOutcome
    /\ wallet = IF engine = "null" THEN "null" ELSE "loaded"
    /\ totalVolume = 0
    /\ validation = NoValidation

\* init(): the runner builds a DecisionEngine; LLMDecisionEngine is the
\* drop-in replacement with the same interface.
InitRunner ==
    /\ engine = "null"
    /\ wallet' = "loaded"
    /\ engine' \in {"rule", "llm"}
    /\ lastTrade' = NoTrade
    /\ outcome' = NoOutcome
    /\ UNCHANGED <<otherVars, running, timer, intervals, peers, cycleCount,
                   state, tradeCount, ticks, started, totalVolume, validation>>

\* init(): wallet.getOrCreate() rejects (the wallet file cannot be read,
\* decrypted or written).  this.wallet is already assigned; the protocol and
\* the engine are not built.
InitFails ==
    /\ engine = "null"
    /\ wallet' = "unloaded"
    /\ lastTrade' = NoTrade
    /\ outcome' = [NoOutcome EXCEPT !.early = "initFailed"]
    /\ UNCHANGED <<otherVars, running, timer, intervals, engine, peers,
                   cycleCount, state, tradeCount, ticks, started, totalVolume,
                   validation>>

\* _runTick up to the first await of engine.tick(): cycleCount++ and the
\* balance is asked for.  With no engine, this.engine.tick() throws a
\* TypeError that _runTick catches.
BeginTick ==
    /\ started < MaxTicks
    /\ started' = started + 1
    /\ IF engine = "null"
       THEN /\ outcome' = Outcome("none", "rejected")
            /\ UNCHANGED <<ticks, cycleCount>>
       ELSE /\ ticks' = ticks (+) SetToBag({Tick("balance", 0)})
            /\ cycleCount' = cycleCount + 1
            /\ outcome' = NoOutcome
    /\ lastTrade' = NoTrade
    /\ UNCHANGED <<otherVars, engine, peers, state, tradeCount, wallet,
                   totalVolume, validation>>

\* a call of the runner that returns at its first line
Returns(call) ==
    /\ lastTrade' = NoTrade
    /\ outcome' = [NoOutcome EXCEPT !.early = call]
    /\ UNCHANGED <<otherVars, running, timer, intervals, engine, peers,
                   cycleCount, state, tradeCount, ticks, started, wallet,
                   totalVolume, validation>>

AlreadyRunning_Never == FALSE

\* start(): if (this._running) return
AlreadyRunning == running

\* start(): runs a tick at once, then one per interval.  A handle that
\* this._timer still held stays alive in the event loop.
Start ==
    IF AlreadyRunning
    THEN Returns("start")
    ELSE /\ running' = TRUE
         /\ timer' = TRUE
         /\ intervals' = intervals + 1
         /\ BeginTick

\* the setInterval callback
TimerFires ==
    /\ intervals > 0
    /\ BeginTick
    /\ UNCHANGED <<running, timer, intervals>>

ClearInterval_Forgotten(live) == live

\* clearInterval(this._timer)
ClearInterval(live) == IF timer THEN live - 1 ELSE live

\* stop()
Stop ==
    IF ~running
    THEN Returns("stop")
    ELSE /\ intervals' = ClearInterval(intervals)
         /\ timer' = FALSE
         /\ running' = FALSE
         /\ lastTrade' = NoTrade
         /\ outcome' = NoOutcome
         /\ UNCHANGED <<otherVars, engine, peers, cycleCount, state,
                        tradeCount, ticks, started, wallet, totalVolume,
                        validation>>

\* the source field of the decision event: DecisionEngine.tick gives none,
\* LLMDecisionEngine.tick writes source: "llm"
EventSource(source) == IF source = "llm" THEN "llm" ELSE "none"

\* _executeState / _executeStateWithLLMContext: where the cycle goes on
\* after the decision, given the call of executeTrade it makes, if any
Execute(tick, nextState, source, answer, balance, skips, calls) ==
    IF nextState = "TRADE"
    THEN \/ /\ skips
            /\ ticks' = Settle(tick)
            /\ lastTrade' = NoTrade
            /\ outcome' = Numbered(DecisionOutcome("resolved",
                                       EventSource(source), answer))
         \/ \E call \in calls :
               /\ ticks' = Suspend(tick, TradeTick(call.amount))
               /\ outcome' = Numbered(DecisionOutcome("none",
                                          EventSource(source), answer))
               /\ lastTrade' = [made |-> TRUE, source |-> source,
                                target |-> call.target, balance |-> balance,
                                amount |-> call.amount]
    ELSE /\ lastTrade' = NoTrade
         /\ outcome' = Numbered(DecisionOutcome(
                            IF nextState = "IDLE" THEN "resolved" ELSE "none",
                            EventSource(source), answer))
         /\ ticks' = IF nextState = "YIELD" THEN Suspend(tick, Tick("yield", 0))
                     ELSE IF nextState = "REBAL"
                          THEN Suspend(tick, Tick("rebalBalances", 0))
                     ELSE Settle(tick)

\* DecisionEngine.tick after getSOLBalance resolved: _decide, this.state,
\* and _executeState up to its await
RuleBalanceResolved(tick, balance) ==
    /\ engine = "rule"
    /\ tick.pc = "balance"
    /\ state' = Decide(balance, cycleCount, peers)
    /\ Execute(tick, Decide(balance, cycleCount, peers), "rule",
               Decide(balance, cycleCount, peers), balance,
               RuleTradeSkips(balance), RuleTradeCalls(balance))
    /\ UNCHANGED <<otherVars, running, timer, intervals, engine, peers,
                   cycleCount, tradeCount, started, wallet, totalVolume,
                   validation>>

\* LLMDecisionEngine.tick after getSOLBalance resolved: the safety gate,
\* else _buildPeerSnapshots is awaited
LLMBalanceResolved(tick, balance) ==
    /\ engine = "llm"
    /\ tick.pc = "balance"
    /\ IF balance < BalanceFloor
       THEN /\ state' = "IDLE"
            /\ ticks' = Settle(tick)
            /\ outcome' = Numbered(DecisionOutcome("resolved", "safety-gate",
                                                    "IDLE"))
       ELSE /\ ticks' = Suspend(tick, Tick("snapshot", balance))
            /\ outcome' = NoOutcome
            /\ UNCHANGED state
    /\ lastTrade' = NoTrade
    /\ UNCHANGED <<otherVars, running, timer, intervals, engine, peers,
                   cycleCount, tradeCount, started, wallet, totalVolume,
                   validation>>

AfterTickRejected_Unhandled(live) == 0

\* _runTick: the catch logs the rejection of tick(), so it never becomes
\* an unhandled rejection that ends the process and its schedules
AfterTickRejected(live) == live

\* getSOLBalance rejects: tick() throws and _runTick catches it
BalanceRejected(tick) ==
    /\ tick.pc = "balance"
    /\ ticks' = Settle(tick)
    /\ intervals' = AfterTickRejected(intervals)
    /\ lastTrade' = NoTrade
    /\ outcome' = Outcome("none", "rejected")
    /\ UNCHANGED <<otherVars, running, timer, engine, peers, cycleCount,
                   state, tradeCount, started, wallet, totalVolume,
                   validation>>

\* _buildPeerSnapshots resolved (it catches every peer's failure): the
\* snapshot is built and _llmDecide is awaited
SnapshotResolved(tick) ==
    /\ tick.pc = "snapshot"
    /\ ticks' = Suspend(tick, SnapshotTick(tick.balance, peers))
    /\ lastTrade' = NoTrade
    /\ outcome' = NoOutcome
    /\ UNCHANGED <<otherVars, running, timer, intervals, engine, peers,
                   cycleCount, state, tradeCount, started, wallet,
                   totalVolume, validation>>

\* LLMDecisionEngine.tick after _llmDecide resolved with `decision`:
\* _validateDecision, this.state, and _executeStateWithLLMContext up to its
\* await
LLMDecided(tick, decision) ==
    /\ tick.pc = "llm"
    /\ state' = ValidatedState(decision, tick.balance)
    /\ Execute(tick, ValidatedState(decision, tick.balance), "llm",
               decision.action, tick.balance,
               LLMTradeSkips(ValidatedDecision(decision, tick.balance), tick.balance),
               LLMTradeCalls(ValidatedDecision(decision, tick.balance), tick.balance))
    /\ UNCHANGED <<otherVars, running, timer, intervals, engine, peers,
                   cycleCount, tradeCount, started, wallet, totalVolume,
                   validation>>

\* _llmDecide: the collaborator answered with parseable JSON
LLMAnswers(tick) == \E decision \in LLMDecisions : LLMDecided(tick, decision)

\* _llmDecide: no API key, a non-2xx answer, no JSON in it, or the 15 s
\* timeout: the rule-based fallback object is the decision
LLMFallsBack(tick) ==
    \E decision \in FallbackDecisionObjects(ToFixed6(tick.balance)) :
        LLMDecided(tick, decision)

VolumeAfterTrade_Forgotten(volume, amount) == volume

\* this.totalVolume += amount
VolumeAfterTrade(volume, amount) == volume + amount

\* executeTrade resolved: tradeCount++, totalVolume += amount and the
\* action event
TradeResolved(tick) ==
    /\ tick.pc = "trade"
    /\ tradeCount' = tradeCount + 1
    /\ totalVolume' = VolumeAfterTrade(totalVolume, tick.amount)
    /\ ticks' = Settle(tick)
    /\ lastTrade' = NoTrade
    /\ outcome' = ActionOutcome("TRADE", tick.amount)
    /\ UNCHANGED <<otherVars, running, timer, intervals, engine, peers,
                   cycleCount, state, started, wallet, validation>>

\* _doRebal: the balances of the pool were read, rebalancePool is awaited
RebalBalancesResolved(tick) ==
    /\ tick.pc = "rebalBalances"
    /\ ticks' = Suspend(tick, Tick("rebal", 0))
    /\ lastTrade' = NoTrade
    /\ outcome' = NoOutcome
    /\ UNCHANGED <<otherVars, running, timer, intervals, engine, peers,
                   cycleCount, state, tradeCount, started, wallet,
                   totalVolume, validation>>

\* simulateYield or rebalancePool resolved (and the action event)
SideEffectResolved(tick) ==
    /\ tick.pc \in {"yield", "rebal"}
    /\ ticks' = Settle(tick)
    /\ lastTrade' = NoTrade
    /\ outcome' = ActionOutcome(IF tick.pc = "yield" THEN "YIELD" ELSE "REBAL", 0)
    /\ UNCHANGED <<otherVars, running, timer, intervals, engine, peers,
                   cycleCount, state, tradeCount, started, wallet,
                   totalVolume, validation>>

StateAfterError_Kept == state

\* this.state = AgentState.IDLE, the last line of the catch
StateAfterError == "IDLE"

\* the awaited call of the side effect rejects: the catch of _executeState
\* emits the error event and falls back to IDLE
SideEffectRejected(tick) ==
    /\ tick.pc \in {"trade", "yield", "rebalBalances", "rebal"}
    /\ state' = StateAfterError
    /\ ticks' = Settle(tick)
    /\ lastTrade' = NoTrade
    /\ outcome' = Outcome("error", "resolved")
    /\ UNCHANGED <<otherVars, running, timer, intervals, engine, peers,
                   cycleCount, tradeCount, started, wallet, totalVolume,
                   validation>>

AgentNext ==
    \/ InitRunner
    \/ Start
    \/ TimerFires
    \/ Stop
    \/ \E tick \in BagToSet(ticks), b \in Balances : RuleBalanceResolved(tick, b)
    \/ \E tick \in BagToSet(ticks), b \in Balances : LLMBalanceResolved(tick, b)
    \/ \E tick \in BagToSet(ticks) : BalanceRejected(tick)
    \/ \E tick \in BagToSet(ticks) : SnapshotResolved(tick)
    \/ \E tick \in BagToSet(ticks) : LLMAnswers(tick)
    \/ \E tick \in BagToSet(ticks) : LLMFallsBack(tick)
    \/ \E tick \in BagToSet(ticks) : TradeResolved(tick)
    \/ \E tick \in BagToSet(ticks) : RebalBalancesResolved(tick)
    \/ \E tick \in BagToSet(ticks) : SideEffectResolved(tick)
    \/ \E tick \in BagToSet(ticks) : SideEffectRejected(tick)

\* the steps of the cycles in flight
CycleNext ==
    \/ \E tick \in BagToSet(ticks), b \in Balances : RuleBalanceResolved(tick, b)
    \/ \E tick \in BagToSet(ticks), b \in Balances : LLMBalanceResolved(tick, b)
    \/ \E tick \in BagToSet(ticks) : BalanceRejected(tick)
    \/ \E tick \in BagToSet(ticks) : SnapshotResolved(tick)
    \/ \E tick \in BagToSet(ticks) : LLMAnswers(tick)
    \/ \E tick \in BagToSet(ticks) : LLMFallsBack(tick)
    \/ \E tick \in BagToSet(ticks) : TradeResolved(tick)
    \/ \E tick \in BagToSet(ticks) : RebalBalancesResolved(tick)
    \/ \E tick \in BagToSet(ticks) : SideEffectResolved(tick)
    \/ \E tick \in BagToSet(ticks) : SideEffectRejected(tick)

\* cycleCount of an engine that is driven without a runner, before the
\* cycle under test: the next cycles are the 1st, 7th, 12th and 84th
EngineCycles == {0, 6, 11, 83}

\* new DecisionEngine(...) or new LLMDecisionEngine(...), EngineCycles idle
\* cycles behind it
EngineInit ==
    /\ MSInit
    /\ VaultAtRest
    /\ PoolInit
    /\ running = FALSE
    /\ timer = FALSE
    /\ intervals = 0
    /\ peers \in PeerLists
    /\ engine \in {"rule", "llm"}
    /\ cycleCount \in EngineCycles
    /\ state = "IDLE"
    /\ tradeCount = 0
    /\ ticks = EmptyBag
    /\ started = 0
    /\ lastTrade = NoTrade
    /\ outcome = NoOutcome
    /\ wallet = "loaded"
    /\ totalVolume = 0
    /\ validation = NoValidation

\* `await engine.tick()` in a loop, as demo.js drives its engines: the next
\* cycle starts when the last one has settled
CallTick ==
    /\ ticks = EmptyBag
    /\ BeginTick
    /\ UNCHANGED <<running, timer, intervals>>

EngineNext ==
    \/ CallTick
    \/ CycleNext

\* setPeers(peerWallets)
SetPeers(peerList) ==
    /\ peers' = peerList
    /\ lastTrade' = NoTrade
    /\ outcome' = NoOutcome
    /\ UNCHANGED <<otherVars, running, timer, intervals, engine, cycleCount,
                   state, tradeCount, ticks, started, wallet, totalVolume,
                   validation>>

\* A listener registered with runner.on throws.  emit calls the listeners
\* in the caller's stack, so the throw leaves emit where the engine called
\* it.  The decision event is emitted before this.state is written (after
\* it, in the safety gate) and outside any try: tick() rejects.
DecisionListenerThrows(tick) ==
    /\ \/ tick.pc = "balance" /\ engine = "rule" /\ UNCHANGED state
       \/ tick.pc = "balance" /\ engine = "llm" /\ state' = "IDLE"
       \/ tick.pc = "llm" /\ UNCHANGED state
    /\ ticks' = Settle(tick)
    /\ intervals' = AfterTickRejected(intervals)
    /\ lastTrade' = NoTrade
    /\ outcome' = Outcome("decision", "rejected")
    /\ UNCHANGED <<otherVars, running, timer, engine, peers, cycleCount,
                   tradeCount, started, wallet, totalVolume, validation>>

\* The action event is emitted inside the try of _executeState: the throw
\* of its listener is caught there as if the side effect had failed.
ActionListenerThrows(tick) ==
    /\ tick.pc \in {"trade", "yield", "rebal"}
    /\ tradeCount' = IF tick.pc = "trade" THEN tradeCount + 1 ELSE tradeCount
    /\ totalVolume' = IF tick.pc = "trade"
                      THEN VolumeAfterTrade(totalVolume, tick.amount)
                      ELSE totalVolume
    /\ state' = StateAfterError
    /\ ticks' = Settle(tick)
    /\ lastTrade' = NoTrade
    /\ outcome' = Outcome("error", "resolved")
    /\ UNCHANGED <<otherVars, running, timer, intervals, engine, peers,
                   cycleCount, started, wallet, validation>>

\* The error event is emitted in the catch of _executeState, before
\* this.state = IDLE: the throw of its listener leaves the catch.
ErrorListenerThrows(tick) ==
    /\ tick.pc \in {"trade", "yield", "rebalBalances", "rebal"}
    /\ ticks' = Settle(tick)
    /\ intervals' = AfterTickRejected(intervals)
    /\ lastTrade' = NoTrade
    /\ outcome' = Outcome("error", "rejected")
    /\ UNCHANGED <<otherVars, running, timer, engine, peers, cycleCount,
                   state, tradeCount, started, wallet, totalVolume,
                   validation>>

ListenerNext ==
    \/ \E tick \in BagToSet(ticks) : DecisionListenerThrows(tick)
    \/ \E tick \in BagToSet(ticks) : ActionListenerThrows(tick)
    \/ \E tick \in BagToSet(ticks) : ErrorListenerThrows(tick)

----------------------------------------------------------------------------
(* LLMDecisionEngine._validateDecision called on its own *)

\* _validateDecision(decision, balance), as a test calls it on the engine:
\* what it returns and the decision object as the call leaves it
ValidateCall(decision, balance) ==
    /\ validation' = [called |-> TRUE, raw |-> decision, balance |-> balance,
                      result |-> ValidatedState(decision, balance),
                      decision |-> ValidatedDecision(decision, balance),
                      calls |-> Min(validation.calls + 1, 2),
                      firstPeers |-> IF validation.called
                                     THEN validation.firstPeers ELSE peers,
                      seenPeers |-> peers]
    /\ lastTrade' = NoTrade
    /\ outcome' = NoOutcome
    /\ UNCHANGED <<otherVars, running, timer, intervals, engine, peers,
                   cycleCount, state, tradeCount, ticks, started, wallet,
                   totalVolume>>

\* new LLMDecisionEngine(...)
ValidatorInit ==
    /\ EngineInit
    /\ engine = "llm"

\* a first call with any decision and balance
ValidateFirst(decision, balance) ==
    /\ ~validation.called
    /\ ValidateCall(decision, balance)

\* the call is repeated with the same balance, and with an equal decision
\* or with the same object as the first call left it
ValidateAgain ==
    /\ validation.called
    /\ \E d \in {validation.raw, validation.decision} :
          ValidateCall(d, validation.balance)

\* the validator is called on an engine whose peers are set between the calls
ValidatorNext ==
    \/ \E d \in LLMDecisions, b \in Balances : ValidateFirst(d, b)
    \/ ValidateAgain
    \/ \E peerList \in PeerLists : SetPeers(peerList)

----------------------------------------------------------------------------
(* Specifications *)

Init == MSInit /\ AgentInit /\ VaultAtRest /\ PoolInit

\* the co-signature workflow, the agent at rest (a new runner without peers)
MultiSigInit == Init /\ engine = "null" /\ peers = << >>

MultiSigSpec == MultiSigInit /\ [][MSNext]_vars

\* one agent's runner and engine, the proposal registry at rest
AgentSpec == Init /\ [][AgentNext]_vars

\* the same, with the event loop running: a live setInterval schedule
\* keeps firing its callback
AgentLiveSpec == AgentSpec /\ WF_vars(TimerFires)

\* one engine driven cycle after cycle, without a runner
EngineSpec == EngineInit /\ [][EngineNext]_vars

\* the runner and engine, with setPeers called at any time
PeersSpec ==
    Init /\ [][AgentNext \/ \E peerList \in PeerLists : SetPeers(peerList)]_vars

\* the runner and engine, with listeners that may throw
ListenerSpec == Init /\ [][AgentNext \/ ListenerNext]_vars

\* the runner and engine, with an init() that may fail
InitNext == AgentNext \/ InitFails

InitSpec == Init /\ [][InitNext]_vars

\* the validator of one LLMDecisionEngine, called on its own
ValidatorSpec == ValidatorInit /\ [][ValidatorNext]_vars

\* wallet files and the vault of one process, the rest at rest
VaultStart ==
    /\ MSInit /\ AgentInit /\ engine = "null" /\ peers = << >>
    /\ VaultInit /\ PoolInit

VaultSpec == VaultStart /\ [][VaultNext]_vars

\* one call of rebalancePool, the rest at rest
PoolSpec == MultiSigInit /\ [][PoolNext]_vars

\* the same, with an RPC client that settles every sendSOL it is given
PoolLiveSpec == PoolSpec /\ WF_vars(PoolTransferSettles)

----------------------------------------------------------------------------
(* Properties of the co-signature workflow *)

\* The proposal a call of execute names
ProposalOf(c) == proposals[execCalls[c].pid]

\* execute has handed the transaction to signAndSend in call c
ReachedBroadcast(c) ==
    \/ execCalls[c].pc \in {"signAndSend", "returned"}
    \/ execCalls[c].pc = "threw" /\ execCalls[c].error = "BroadcastError"

\* requiredSigners is a threshold M with 1 <= M <= N, N the number of
\* distinct authorized signers
ValidThreshold(prop) ==
    /\ 1 <= prop.requiredSigners
    /\ prop.requiredSigners <= Cardinality(Range(prop.authorizedSigners))

\* C1: a proposal's transaction reaches signAndSend only if the proposal
\* holds signatures of at least requiredSigners distinct signers, every one
\* of them a member of its authorizedSigners.
C1_BroadcastNeedsThreshold ==
    \A c \in 1 .. MaxExecuteCalls :
        ReachedBroadcast(c) =>
            /\ ProposalOf(c).signatures \subseteq Range(ProposalOf(c).authorizedSigners)
            /\ Cardinality(ProposalOf(c).signatures) >= ProposalOf(c).requiredSigners

C1_Witness ==
    \E c \in 1 .. MaxExecuteCalls :
        /\ execCalls[c].pc = "returned"
        /\ ProposalOf(c).requiredSigners = 2
        /\ Cardinality(ProposalOf(c).signatures) = 2

\* C2: of the execute calls in flight on one approved M-of-N proposal
\* (M >= 2, so that it was approved by co-signature), exactly one
\* broadcasts: no proposal's transaction is confirmed twice.
C2_ExactlyOneBroadcast ==
    \A pid \in DOMAIN proposals :
        (ValidThreshold(proposals[pid]) /\ proposals[pid].requiredSigners >= 2)
            => confirmed[pid] <= 1

\* C6: an execute that starts on an EXECUTED proposal throws
\* already-executed, hands nothing to signAndSend, and leaves the proposal
\* (status, executedAt, executionSignature) as it was.
C6_ExecutedIsFinal ==
    [][\A c \in 1 .. MaxExecuteCalls, pid \in ProposalIds :
          (/\ pid \in DOMAIN proposals
           /\ proposals[pid].status = "EXECUTED"
           /\ ExecuteBegin(c, pid))
          => /\ execCalls'[c].pc = "threw"
             /\ execCalls'[c].error = "AlreadyExecuted"
             /\ proposals' = proposals
             /\ confirmed' = confirmed]_vars

C6_Witness ==
    \E c \in 1 .. MaxExecuteCalls :
        /\ execCalls[c].pc = "threw"
        /\ execCalls[c].error = "AlreadyExecuted"
        /\ ProposalOf(c).status = "EXECUTED"
        /\ confirmed[execCalls[c].pid] = 1

StatusMoves ==
    {<<"PENDING", "APPROVED">>, <<"APPROVED", "EXECUTED">>,
     <<"PENDING", "REJECTED">>}

\* C7: the status of a proposal with a threshold 1 <= M <= N changes only
\* along PENDING->APPROVED, APPROVED->EXECUTED or PENDING->REJECTED.
C7_StatusMonotonic ==
    [][\A pid \in DOMAIN proposals :
          ValidThreshold(proposals[pid]) =>
              \/ proposals'[pid].status = proposals[pid].status
              \/ <<proposals[pid].status, proposals'[pid].status>> \in StatusMoves]_vars

\* C8: for a threshold 1 <= M <= N, the step in which the signature count
\* first reaches M is the step in which the status becomes APPROVED.
C8_ApprovedExactlyAtThreshold ==
    [][\A pid \in DOMAIN proposals' :
          LET before == IF pid \in DOMAIN proposals
                        THEN proposals[pid]
                        ELSE NewProposal(proposals'[pid].proposerAgentId,
                                         proposals'[pid].requiredSigners,
                                         proposals'[pid].authorizedSigners)
              after == proposals'[pid]
          IN  ValidThreshold(after) =>
                ((SignatureCount(before) < after.requiredSigners
                    /\ SignatureCount(after) >= after.requiredSigners)
                 <=> (before.status = "PENDING" /\ after.status = "APPROVED"))]_vars

\* C9: no proposal is registered with requiredSigners < 1 or
\* requiredSigners > the number of authorized signers.
C9_ThresholdValidated ==
    \A pid \in DOMAIN proposals :
        /\ 1 <= proposals[pid].requiredSigners
        /\ proposals[pid].requiredSigners <= Len(proposals[pid].authorizedSigners)

\* C10: every key of signatures is an authorized signer, and a coSign by a
\* wallet that is not authorized throws and leaves the proposal as it was.
C10_OnlyAuthorizedSign ==
    /\ [](\A pid \in DOMAIN proposals :
            proposals[pid].signatures \subseteq Range(proposals[pid].authorizedSigners))
    /\ [][\A pid \in ProposalIds, w \in Wallets :
            (/\ pid \in DOMAIN proposals
             /\ w \notin Range(proposals[pid].authorizedSigners)
             /\ CoSign(pid, w))
            => /\ ret'.op = "coSign"
               /\ ret'.outcome \in {"InvalidState", "Unauthorized"}
               /\ proposals' = proposals]_vars

C10_Witness ==
    /\ ret.op = "coSign"
    /\ ret.outcome = "Unauthorized"
    /\ \E pid \in DOMAIN proposals :
          /\ proposals[pid].status = "PENDING"
          /\ Cardinality(Range(proposals[pid].authorizedSigners)) = 2

\* C11: coSign calls on one proposal interleave as whole calls.  Every step
\* that changes a proposal's signatures adds exactly one signer, authorized
\* and not counted before, to a PENDING proposal, and sets APPROVED in that
\* same step iff the count has reached requiredSigners; once the status has
\* left PENDING no call is counted and none takes the transition again.
C11_CoSignAtomic ==
    [][\A pid \in DOMAIN proposals :
          LET before == proposals[pid]
              after == proposals'[pid]
          IN  /\ after.signatures # before.signatures =>
                    /\ before.status = "PENDING"
                    /\ \E w \in Range(before.authorizedSigners) \ before.signatures :
                          after.signatures = before.signatures \cup {w}
                    /\ after.status = IF IsApproved(after) THEN "APPROVED"
                                      ELSE "PENDING"
                    /\ ret'.op = "coSign"
                    /\ ret'.approved = IsApproved(after)
              /\ before.status # "PENDING" =>
                    /\ after.signatures = before.signatures
                    /\ after.status # "PENDING"]_vars

C11_Witness ==
    /\ ret.op = "coSign"
    /\ ret.outcome = "InvalidState"
    /\ \E pid \in DOMAIN proposals :
          /\ proposals[pid].status = "APPROVED"
          /\ proposals[pid].requiredSigners = 2
          /\ SignatureCount(proposals[pid]) = 2
          /\ Cardinality(Range(proposals[pid].authorizedSigners)) = 3

\* C12: on a 2-of-3 proposal that two signers brought to APPROVED, a coSign
\* by the third authorized signer is recorded and the status stays APPROVED.
C12_LateCoSignRecorded ==
    [][\A pid \in ProposalIds, w \in Wallets :
          (/\ pid \in DOMAIN proposals
           /\ proposals[pid].status = "APPROVED"
           /\ proposals[pid].requiredSigners = 2
           /\ SignatureCount(proposals[pid]) = 2
           /\ Cardinality(Range(proposals[pid].authorizedSigners)) = 3
           /\ w \in Range(proposals[pid].authorizedSigners)
           /\ w \notin proposals[pid].signatures
           /\ CoSign(pid, w))
          => /\ proposals'[pid].signatures = proposals[pid].signatures \cup {w}
             /\ proposals'[pid].status = "APPROVED"]_vars

\* C13: a coSign on a proposal that is not PENDING throws the state error
\* and leaves the proposal, its signatures included, as it was.
C13_CoSignNeedsPending ==
    [][\A pid \in ProposalIds, w \in Wallets :
          (/\ pid \in DOMAIN proposals
           /\ proposals[pid].status # "PENDING"
           /\ CoSign(pid, w))
          => /\ ret'.op = "coSign"
             /\ ret'.outcome = "InvalidState"
             /\ proposals' = proposals]_vars

C13_Witness ==
    /\ ret.op = "coSign"
    /\ ret.outcome = "InvalidState"
    /\ \E pid \in DOMAIN proposals :
          /\ proposals[pid].status = "EXECUTED"
          /\ SignatureCount(proposals[pid]) < Cardinality(Range(proposals[pid].authorizedSigners))

\* C14: a coSign by a signer whose signature is already recorded leaves the
\* proposal as it was: the signatures, and so their count, do not change.
C14_CoSignIdempotent ==
    [][\A pid \in ProposalIds, w \in Wallets :
          (/\ pid \in DOMAIN proposals
           /\ w \in proposals[pid].signatures
           /\ CoSign(pid, w))
          => /\ proposals'[pid].signatures = proposals[pid].signatures
             /\ SignatureCount(proposals'[pid]) = SignatureCount(proposals[pid])
             /\ proposals' = proposals]_vars

\* a coSign answered approved on a proposal still PENDING: only the
\* already-signed return gives it (the proposer again, on a 1-of-N proposal)
C14_Witness ==
    /\ ret.op = "coSign"
    /\ ret.outcome = "ok"
    /\ ret.approved
    /\ \E pid \in DOMAIN proposals :
          /\ proposals[pid].status = "PENDING"
          /\ proposals[pid].requiredSigners = 1
          /\ SignatureCount(proposals[pid]) = 1

\* C15: a coSign by a signer whose signature is already recorded returns
\* the current approval without failing and changes nothing, whatever the
\* status of the proposal.
C15_ResignNeverFails ==
    [][\A pid \in ProposalIds, w \in Wallets :
          (/\ pid \in DOMAIN proposals
           /\ w \in proposals[pid].signatures
           /\ CoSign(pid, w))
          => /\ ret'.op = "coSign"
             /\ ret'.outcome = "ok"
             /\ ret'.approved = IsApproved(proposals[pid])
             /\ proposals' = proposals]_vars

\* C16: no step removes a proposal or an entry of its signatures: the
\* signature count never decreases.
C16_SignaturesOnlyGrow ==
    [][\A pid \in DOMAIN proposals :
          /\ pid \in DOMAIN proposals'
          /\ proposals[pid].signatures \subseteq proposals'[pid].signatures
          /\ SignatureCount(proposals[pid]) <= SignatureCount(proposals'[pid])]_vars

C16_Witness ==
    \E pid \in DOMAIN proposals :
        /\ proposals[pid].status = "EXECUTED"
        /\ proposals[pid].requiredSigners = 3
        /\ SignatureCount(proposals[pid]) = 3

----------------------------------------------------------------------------
(* Properties of the runner and the engines *)

\* C3: at most one decision cycle of the agent is in flight at any time.
C3_CyclesNeverOverlap == BagCardinality(ticks) <= 1

\* C4: every trade handed to executeTrade, by either engine, is of at most
\* AGENT_MAX_SOL_PER_TX.
C4_SpendCap ==
    lastTrade.made => lastTrade.amount <= AGENT_MAX_SOL_PER_TX

C4_Witness ==
    /\ lastTrade.made
    /\ lastTrade.source = "llm"
    /\ lastTrade.amount = AGENT_MAX_SOL_PER_TX
    /\ lastTrade.balance > 10 * AGENT_MAX_SOL_PER_TX

\* C5: every trade handed to executeTrade, by either engine, leaves at least
\* BalanceFloor of the balance read for that cycle.
C5_BalanceFloorKept ==
    lastTrade.made => lastTrade.balance - lastTrade.amount >= BalanceFloor

\* C17: at most one setInterval schedule is alive; start() on a running
\* runner starts no cycle and creates no schedule; start() on a stopped
\* runner starts one cycle in that call and creates the schedule.
C17_StartIdempotent ==
    /\ [](intervals <= 1)
    /\ [][(running /\ Start) =>
            UNCHANGED <<running, timer, intervals, ticks, started, cycleCount,
                        state, tradeCount>>]_vars
    /\ [][(~running /\ Start) =>
            /\ running'
            /\ timer'
            /\ intervals' = 1
            /\ started' = started + 1]_vars

C17_Witness ==
    /\ outcome.early = "start"
    /\ running
    /\ intervals = 1
    /\ started = 1

\* what may follow for a tick in flight: its awaited call resolves or rejects
TickContinues(tick) ==
    \/ \E b \in Balances : RuleBalanceResolved(tick, b)
    \/ \E b \in Balances : LLMBalanceResolved(tick, b)
    \/ BalanceRejected(tick)
    \/ SnapshotResolved(tick)
    \/ LLMFallsBack(tick)
    \/ TradeResolved(tick)
    \/ RebalBalancesResolved(tick)
    \/ SideEffectResolved(tick)
    \/ SideEffectRejected(tick)

\* C18: stop() on a stopped runner changes nothing; a stopped runner has no
\* schedule, and a new cycle starts on it only by start(); stop() leaves
\* the cycles in flight and the engine as they are, and a cycle in flight
\* on a stopped runner can still take its next step.
C18_StopGraceful ==
    /\ [](~running => intervals = 0)
    /\ [](~running => \A tick \in BagToSet(ticks) : ENABLED TickContinues(tick))
    /\ [][(~running /\ Stop) =>
            UNCHANGED <<running, timer, intervals, ticks, started, cycleCount,
                        state, tradeCount>>]_vars
    /\ [][(~running /\ started' # started) => (running' /\ Start)]_vars
    /\ [][Stop => (/\ ~running'
                   /\ UNCHANGED <<ticks, started, cycleCount, state, tradeCount>>)]_vars

\* a trade that was in flight at stop() went through on the stopped runner
C18_Witness ==
    /\ ~running
    /\ started = 1
    /\ tradeCount = 1
    /\ outcome.event = "action"
    /\ outcome.tick = "resolved"

\* C19: when the awaited call of a trade, yield or rebalance rejects, the
\* step emits the error event, leaves state IDLE and resolves tick(); no
\* error event is emitted otherwise.
C19_SideEffectErrorCaught ==
    /\ [](outcome.event = "error" => (state = "IDLE" /\ outcome.tick = "resolved"))
    /\ [][\A tick \in BagToSet(ticks) :
            SideEffectRejected(tick) =>
                /\ outcome'.event = "error"
                /\ outcome'.tick = "resolved"
                /\ state' = "IDLE"
                /\ ticks' = ticks (-) SetToBag({tick})]_vars

C19_Witness ==
    /\ outcome.event = "error"
    /\ outcome.tick = "resolved"
    /\ state = "IDLE"
    /\ engine = "llm"
    /\ started = 1

\* C20: when a cycle has failed (tick() rejected, or the error event was
\* emitted) and no other cycle is in flight, the engine's state is IDLE.
C20_FailedCycleEndsIdle ==
    (/\ engine # "null"
     /\ ticks = EmptyBag
     /\ outcome.tick = "rejected" \/ outcome.event = "error")
        => state = "IDLE"

\* a cycle failed in the last step: tick() rejected, or the error event
FailedCycle == outcome.tick = "rejected" \/ outcome.event = "error"

\* C21: a running runner always has its schedule, and after a failed cycle
\* on a running runner another cycle is started unless stop() is called
\* (as long as the run has _runTick invocations left).
C21_ScheduleSurvivesFailure ==
    /\ [](running => intervals = 1)
    /\ \A n \in 0 .. MaxTicks - 1 :
          (FailedCycle /\ running /\ started = n) ~> (~running \/ started > n)

C21_Witness ==
    /\ FailedCycle
    /\ engine # "null"
    /\ running
    /\ intervals = 1
    /\ started = 1

\* C22: a listener that throws does not fail or alter the cycle: after the
\* decision event the cycle goes on (tick() does not reject), after the
\* action event the state stays as decided and no error event follows, and
\* after the error event the state is IDLE and tick() resolves.
C22_ListenerNeverFailsCycle ==
    [][\A tick \in BagToSet(ticks) :
          /\ DecisionListenerThrows(tick) => outcome'.tick # "rejected"
          /\ ActionListenerThrows(tick) =>
                (outcome'.event # "error" /\ state' = state)
          /\ ErrorListenerThrows(tick) =>
                (state' = "IDLE" /\ outcome'.tick = "resolved")]_vars

\* C23: a trade of the inference engine goes to a peer of the peer set its
\* cycle's snapshot was built from, whatever setPeers did since.
C23_InFlightKeepsPeers ==
    [][(lastTrade'.made /\ lastTrade'.source = "llm") =>
          \E tick \in BagToSet(ticks) :
              /\ tick.pc = "llm"
              /\ lastTrade'.target \in Range(tick.peers)]_vars

\* C24: when the balance read for a cycle is below the floor, either
\* engine decides IDLE at any cycle number, without asking the
\* collaborator, and the cycle ends there: no trade, yield or rebalance.
C24_LowBalanceIdles ==
    [][\A tick \in BagToSet(ticks), b \in Balances :
          (/\ b < BalanceFloor
           /\ RuleBalanceResolved(tick, b) \/ LLMBalanceResolved(tick, b))
          => /\ state' = "IDLE"
             /\ outcome'.event = "decision"
             /\ outcome'.answer = "IDLE"
             /\ outcome'.tick = "resolved"
             /\ ~lastTrade'.made
             /\ ticks' = ticks (-) SetToBag({tick})]_vars

\* the rule engine decided IDLE on a cycle that is a multiple of 7 and 12
C24_Witness ==
    /\ engine = "rule"
    /\ cycleCount = 84
    /\ peers # << >>
    /\ outcome.event = "decision"
    /\ outcome.answer = "IDLE"
    /\ state = "IDLE"

\* the ladder of the rule engine, in the words of its rules
RuleLadder(balance, cycle, peerList) ==
    CASE balance < BalanceFloor -> "IDLE"
      [] balance >= BalanceFloor /\ cycle % 7 = 0 -> "YIELD"
      [] balance >= BalanceFloor /\ cycle % 7 # 0 /\ cycle % 12 = 0
            /\ peerList # << >> -> "REBAL"
      [] balance >= BalanceFloor /\ cycle % 7 # 0
            /\ ~(cycle % 12 = 0 /\ peerList # << >>)
            /\ peerList # << >> /\ balance > TradeThreshold -> "TRADE"
      [] OTHER -> "IDLE"

C26_FallbackIsRuleDecision ==
    \A tick \in BagToSet(ticks) :
        tick.pc = "llm" =>
            \A d \in FallbackDecisionObjects(ToFixed6(tick.balance)) :
                d.action = Decide(tick.balance, cycleCount, peers)

\* C27: the decision event of a cycle that fell back to the rule decision
\* carries source "rule".
C27_FallbackSourceIsRule ==
    [][\A tick \in BagToSet(ticks) :
          LLMFallsBack(tick) => outcome'.source = "rule"]_vars

\* C28: a TRADE asked above the cap, on a balance that keeps the floor once
\* the capped amount is taken, is validated as a TRADE.
C28_CapBeforeFloor ==
    [][\A tick \in BagToSet(ticks), d \in LLMDecisions :
          (/\ tick.pc = "llm"
           /\ d.action = "TRADE"
           /\ AmountGiven(d)
           /\ d.tradeAmount > AGENT_MAX_SOL_PER_TX
           /\ tick.balance - AGENT_MAX_SOL_PER_TX >= BalanceFloor
           /\ LLMDecided(tick, d))
          => state' = "TRADE"]_vars

\* C29: a TRADE whose target is null or no peer of the agent ends as IDLE,
\* and nothing is handed to executeTrade.
C29_UnknownTargetIdles ==
    [][\A tick \in BagToSet(ticks), d \in LLMDecisions :
          (/\ tick.pc = "llm"
           /\ d.action = "TRADE"
           /\ d.tradeTarget \notin Range(peers)
           /\ LLMDecided(tick, d))
          => (state' = "IDLE" /\ ~lastTrade'.made)]_vars

\* C30: the state is one of the four AgentState values, and a decision
\* whose action is none of them leaves the state IDLE.
C30_StateIsAgentState ==
    /\ state \in AgentStates
    /\ (outcome.event = "decision" /\ outcome.answer \notin AgentStates)
          => state = "IDLE"

C30_Witness ==
    /\ engine = "llm"
    /\ outcome.event = "decision"
    /\ outcome.answer = "HODL"
    /\ state = "IDLE"

----------------------------------------------------------------------------
(* Properties of a failed broadcast *)

\* C36: when the broadcast inside execute() fails, the error reaches the
\* caller of that execute() and the step leaves the proposal as it was: a
\* proposal that was APPROVED is still APPROVED, with executedAt and
\* executionSignature unset, and passes every check of a later execute().
C36_FailedBroadcastKeepsApproved ==
    [][\A c \in 1 .. MaxExecuteCalls :
          (execCalls[c].pc = "signAndSend" /\ execCalls'[c].pc = "threw")
          => /\ execCalls'[c].error = "BroadcastError"
             /\ proposals'[execCalls[c].pid] = proposals[execCalls[c].pid]
             /\ proposals[execCalls[c].pid].status = "APPROVED"
                  => /\ proposals'[execCalls[c].pid].status = "APPROVED"
                     /\ proposals'[execCalls[c].pid].executedAt = 0
                     /\ proposals'[execCalls[c].pid].executionSignature = 0
                     /\ ExecuteError(execCalls[c].pid)' = "none"]_vars

\* an execute() whose broadcast failed on an APPROVED proposal, and a later
\* execute() on the same proposal that succeeded
C36_Witness ==
    \E c, d \in 1 .. MaxExecuteCalls :
        /\ c < d
        /\ execCalls[c].pc = "threw"
        /\ execCalls[c].error = "BroadcastError"
        /\ execCalls[d].pc = "returned"
        /\ execCalls[d].pid = execCalls[c].pid
        /\ proposals[execCalls[c].pid].status = "EXECUTED"
        /\ SignatureCount(proposals[execCalls[c].pid]) >= 2


----------------------------------------------------------------------------
(* Properties of the validator *)

\* C31: validation does not modify the decision object it is given: after
\* _validateDecision(decision, balance) the object holds what it held
\* before the call.
C31_ValidationLeavesDecision ==
    validation.called => validation.decision = validation.raw

----------------------------------------------------------------------------
(* Properties of init() *)

\* C33: a runner whose init() failed to obtain the wallet is never running
\* and has no cycle schedule, whatever is called on it afterwards.
C33_FailedInitNeverRuns ==
    wallet = "unloaded" => ~running /\ intervals = 0

----------------------------------------------------------------------------
(* Properties of KeyVault and WalletManager *)

\* C34: every register(agentId) that returned gave the same WalletManager
\* instance for the same agentId, the instance the vault holds, also when
\* the calls were in flight together.
C34_OneInstancePerAgent ==
    \A c, d \in 1 .. MaxRegisterCalls :
        (/\ regCalls[c].pc = "returned"
         /\ regCalls[d].pc = "returned"
         /\ regCalls[c].agentId = regCalls[d].agentId)
        => /\ regCalls[c].wm = regCalls[d].wm
           /\ vault[regCalls[c].agentId] = regCalls[c].wm

----------------------------------------------------------------------------
(* Properties of the cycle numbers and of the trade statistics *)

\* C37: two decision events emitted one right after the other carry
\* consecutive cycle numbers (no number is repeated and none is skipped).
C37_CycleNumbersConsecutive ==
    [][(outcome.event = "decision" /\ outcome'.event = "decision")
       => outcome'.cycle = outcome.cycle + 1]_vars

\* C38: a step changes tradeCount and totalVolume exactly when it emits a
\* TRADE action event, then by one and by the amount of the event; every
\* other step, a failed trade included, leaves both as they are.  (Both are
\* zero when no event was emitted yet, so tradeCount is the number of TRADE
\* action events and totalVolume the sum of their amounts.)
C38_StatsFollowTrades ==
    [][IF outcome'.event = "action" /\ outcome'.action = "TRADE"
       THEN /\ tradeCount' = tradeCount + 1
            /\ totalVolume' = totalVolume + outcome'.amount
       ELSE /\ tradeCount' = tradeCount
            /\ totalVolume' = totalVolume]_vars

\* the second trade of the agent succeeded
C38_Witness ==
    /\ tradeCount = 2
    /\ outcome.event = "action"
    /\ outcome.action = "TRADE"
    /\ outcome.amount > 0
    /\ totalVolume > outcome.amount

----------------------------------------------------------------------------
(* Properties of rebalancePool *)

\* C39: by the balances rebalancePool tracks, no donor goes below
\* targetSOL + 0.001 and no receiver above targetSOL, and a transfer that
\* fails changes no tracked balance.
C39_RebalanceKeepsBounds ==
    /\ [](rebal.pc \in {"transfer", "done"}
          => /\ \A k \in 1 .. Len(rebal.donors) :
                   rebal.bals[rebal.donors[k]] >= rebal.target + RebalReserve
             /\ \A k \in 1 .. Len(rebal.receivers) :
                   rebal.bals[rebal.receivers[k]] <= rebal.target)
    /\ [][(rebal.pc = "transfer" /\ rebal'.settled = "rejected")
          => rebal'.bals = rebal.bals]_vars

\* a donor was drained to targetSOL + 0.001 by a transfer that went
\* through, and the last transfer of the call failed
C39_Witness ==
    /\ rebal.pc = "done"
    /\ rebal.attempts >= 2
    /\ rebal.settled = "rejected"
    /\ \E k \in 1 .. Len(rebal.donors) :
          rebal.bals[rebal.donors[k]] = rebal.target + RebalReserve

\* C40: rebalancePool makes at most |receivers| x |donors| transfer
\* attempts and, once it awaits a transfer, comes to its end, whether the
\* transfers go through or fail.
C40_RebalanceTerminates ==
    /\ [](rebal.attempts <= Len(rebal.receivers) * Len(rebal.donors))
    /\ (rebal.pc = "transfer") ~> (rebal.pc = "done")

\* a call that tried every donor for its receiver, the last one in vain
C40_Witness ==
    /\ rebal.pc = "done"
    /\ rebal.attempts >= 2
    /\ rebal.attempts = Len(rebal.receivers) * Len(rebal.donors)
    /\ rebal.settled = "rejected"

=============================================================================
